---------------------------- MODULE Spec2Model ----------------------------
(***************************************************************************)
(* LeetCode-Data-Fetcher: the export run of main.py, the transport helpers *)
(* of src/utils.py, and the per-problem reconciliation of src/fetcher.py.  *)
(*                                                                         *)
(* Strings that the code inspects with `in` or builds with f-strings are   *)
(* sequences of fragments; the empty string is <<>>.  A JSON body is       *)
(* named by its shape; None is the string "None".                          *)
(***************************************************************************)
EXTENDS Integers, Sequences, FiniteSets, TLC

VARIABLES
    pc,               \* position of main(): which fetcher method is running
    exit_status,      \* "running", "exit0" (main returned) or "exit1" (sys.exit(1))
    stdout,           \* the JSON documents printed on stdout, in order
    profile_stats,    \* the matchedUser.submitStats.acSubmissionNum list kept by main
    enumeration,      \* what the problems endpoint answered ("none": not asked yet)
    solved_questions, \* the list returned by fetch_solved_questions
    i,                \* process_data's loop index (1-based position of the next question)
    problems_output,  \* process_data's problems_output
    submissions_list, \* process_data's submissions_list for the current question
    subs_response,    \* what the submissions endpoint answered for the current question
    subs_dump,        \* the submissions_dump it carried (<<>> when none)
    scrape_calls,     \* slugs scrape_problem_description was called with, in order
    details_result,   \* how the GraphQL call of fetch_problem_details ended for it
    scrape_response,  \* what the problem page answered for it ("none": no scrape)
    processed_stats,  \* process_data's total_solved and difficulty_map
    pd_slept,         \* process_data's time.sleep durations, in tenths of a second
    stderr_error,     \* the message of main's "Error: ..." line (<<>>: none printed)
    auth_result,      \* how the request of test_connection ended (pending: not made)
    stats_result,     \* how the request of fetch_profile_stats ended (pending: not made)
    query,            \* transport study: the fetcher method whose request is followed
    tpc,              \* position inside handle_rate_limit(lambda: make_request(..))
    mr_retries,       \* make_request's retries
    mr_requests,      \* requests.post calls of the current make_request invocation
    mr_slept,         \* sleep_time of each time.sleep of the current make_request invocation
    mr_result,        \* how the current make_request invocation ended
    last_status,      \* the latest answer to requests.post
    hrl_retries,      \* handle_rate_limit's retries
    hrl_calls,        \* request_func() invocations of the current handle_rate_limit call
    hrl_slept,        \* sleep_time of each time.sleep of the current handle_rate_limit call
    total_requests,   \* requests.post calls of the current handle_rate_limit call
    outcome,          \* how the current handle_rate_limit call ended
    dump,             \* merge study: the submissions_dump under study
    scraped_code,     \* merge study: what scrape_submission_code yields per dump position
    merged,           \* merge study: accepted_subs_details and the scrape calls so far
    mk,               \* merge study: position of the loop in the dump
    mpc,              \* merge study: "idle", "loop" or "returned"
    stats_in,         \* stats study: the acSubmissionNum list under study
    stats_out,        \* stats study: the profile_stats block of the export
    spc,              \* stats study: "idle", "input" or "computed"
    fn_input,         \* function study: the argument of the function under study
    fn_output,        \* function study: what it returned
    fn_pc             \* function study: "idle", "call" or "returned"

runVars == <<pc, exit_status, stdout, profile_stats, enumeration, solved_questions, i,
             problems_output, submissions_list, subs_response, subs_dump,
             scrape_calls, details_result, scrape_response, processed_stats, pd_slept,
             stderr_error, auth_result, stats_result>>
transportVars == <<query, tpc, mr_retries, mr_requests, mr_slept, mr_result, last_status,
                   hrl_retries, hrl_calls, hrl_slept, total_requests, outcome>>
mergeVars == <<dump, scraped_code, merged, mk, mpc>>
statsVars == <<stats_in, stats_out, spc>>
pureVars == <<fn_input, fn_output, fn_pc>>
vars == <<runVars, transportVars, mergeVars, statsVars, pureVars>>

None == "None"

(***************************************************************************)
(* Strings as fragment sequences.                                          *)
(***************************************************************************)
\* Python's `needle in text` for a needle that is one fragment.
Contains(text, needle) == \E k \in 1..Len(text) : text[k] = needle

\* str(n) for the numbers the messages carry.
Str(n) ==
    CASE n = 3 -> "3"
      [] n = 404 -> "404"
      [] n = 500 -> "500"
      [] OTHER -> "?"

(***************************************************************************)
(* src/utils.py                                                            *)
(***************************************************************************)
MutMakeRequestMaxRetries == 3 + 1

MakeRequestMaxRetries == 3

MutHandleRateLimitMaxRetries == 5 + 1

HandleRateLimitMaxRetries == 5

Return(v) == [kind |-> "return", value |-> v, msg |-> <<>>]
Raise(m) == [kind |-> "raise", value |-> None, msg |-> m]
NoResult == [kind |-> "pending", value |-> None, msg |-> <<>>]

AuthFailedMsg == <<"Authentication failed", ": Invalid or expired cookies">>
RateLimitedMsg == <<"Rate limited">>
RequestFailedMsg(status) == <<"Request failed", " with status code: ", Str(status)>>
NetworkErrorText == <<"Connection timed out">>
RetriesExhaustedMsg ==
    <<"Request failed", " after ", Str(MakeRequestMaxRetries), " retries: ">>
        \o NetworkErrorText

\* What requests.post can do: answer with a status, or raise a RequestException.
Response(status) == [kind |-> "response", status |-> status]
NetworkException == [kind |-> "exception", status |-> 0]
PostResults == {Response(s) : s \in {200, 403, 429, 500}} \cup {NetworkException}
NoPost == [kind |-> "none", status |-> 0]

\* The JSON bodies a 200 of the GraphQL endpoint carries, per query.
Bodies(q) ==
    CASE q = "test_connection" -> {"signed_in", "not_signed_in", "no_data"}
      [] q = "fetch_profile_stats" ->
            {"matched_user", "errors", "no_data", "no_matched_user"}
      [] q = "fetch_problem_details" ->
            {"question", "question_no_content", "errors", "no_data", "no_question"}
      [] OTHER -> {}

\* make_request's handling of a response (the if/elif chain on status_code).
MutStatusResult(status, body) ==
    CASE status = 200 -> Return(body)
      [] status \in {403, 429} -> Raise(RateLimitedMsg)
      [] OTHER -> Raise(RequestFailedMsg(status))

MutStatusResultNoRateLimit(status, body) ==
    CASE status = 200 -> Return(body)
      [] status = 403 -> Raise(AuthFailedMsg)
      [] OTHER -> Raise(RequestFailedMsg(status))

StatusResult(status, body) ==
    CASE status = 200 -> Return(body)
      [] status = 403 -> Raise(AuthFailedMsg)
      [] status = 429 -> Raise(RateLimitedMsg)
      [] OTHER -> Raise(RequestFailedMsg(status))

\* One iteration of make_request's while loop: requests.post, then either the
\* status chain (whose raise is no RequestException and leaves the function) or
\* the except branch (retries += 1, raise when exhausted, else sleep and loop).
MakeRequestStep(post, body) ==
    /\ tpc = "make_request"
    /\ mr_retries < MakeRequestMaxRetries
    /\ mr_requests' = mr_requests + 1
    /\ total_requests' = total_requests + 1
    /\ last_status' = post
    /\ IF post.kind = "response"
       THEN /\ mr_result' = StatusResult(post.status, body)
            /\ tpc' = "handle_rate_limit"
            /\ UNCHANGED <<mr_retries, mr_slept>>
       ELSE /\ mr_retries' = mr_retries + 1
            /\ IF mr_retries + 1 >= MakeRequestMaxRetries
               THEN /\ mr_result' = Raise(RetriesExhaustedMsg)
                    /\ tpc' = "handle_rate_limit"
                    /\ UNCHANGED mr_slept
               ELSE /\ mr_slept' = Append(mr_slept, 2 ^ (mr_retries + 1))
                    /\ UNCHANGED <<mr_result, tpc>>
    /\ UNCHANGED <<query, hrl_retries, hrl_calls, hrl_slept, outcome>>
    /\ UNCHANGED <<runVars, mergeVars, statsVars, pureVars>>

MakeRequest ==
    \E post \in PostResults :
        \E body \in IF post = Response(200) THEN Bodies(query) ELSE {None} :
            MakeRequestStep(post, body)

\* handle_rate_limit: request_func() returned.
HandleRateLimitReturn ==
    /\ tpc = "handle_rate_limit"
    /\ mr_result.kind = "return"
    /\ outcome' = mr_result
    /\ tpc' = "done"
    /\ UNCHANGED <<query, mr_retries, mr_requests, mr_slept, mr_result, last_status,
                   hrl_retries, hrl_calls, hrl_slept, total_requests>>
    /\ UNCHANGED <<runVars, mergeVars, statsVars, pureVars>>

MutIsRetriedBelowThree(e, retries) == Contains(e, "Rate limited") /\ retries < 3

MutIsRetriedWhateverFailed(e, retries) == retries < HandleRateLimitMaxRetries

\* The test of the except branch: "Rate limited" in str(e) and retries < max_retries.
IsRetried(e, retries) ==
    Contains(e, "Rate limited") /\ retries < HandleRateLimitMaxRetries

\* handle_rate_limit: request_func() raised and the except branch retries:
\* retries += 1, sleep, back to the while test.  When the test fails the loop
\* ends and the function falls off its end, returning None.
HandleRateLimitBackoff ==
    /\ tpc = "handle_rate_limit"
    /\ mr_result.kind = "raise"
    /\ IsRetried(mr_result.msg, hrl_retries)
    /\ hrl_retries' = hrl_retries + 1
    /\ hrl_slept' = Append(hrl_slept, 2 ^ (hrl_retries + 1))
    /\ UNCHANGED <<query, last_status, total_requests>>
    /\ UNCHANGED <<runVars, mergeVars, statsVars, pureVars>>
    /\ IF hrl_retries + 1 < HandleRateLimitMaxRetries
       THEN /\ tpc' = "make_request"
            /\ hrl_calls' = hrl_calls + 1
            /\ mr_retries' = 0
            /\ mr_requests' = 0
            /\ mr_slept' = <<>>
            /\ mr_result' = NoResult
            /\ UNCHANGED outcome
       ELSE /\ tpc' = "done"
            /\ outcome' = Return(None)
            /\ UNCHANGED <<hrl_calls, mr_retries, mr_requests, mr_slept, mr_result>>

\* handle_rate_limit: request_func() raised and the except branch re-raises.
HandleRateLimitRaise ==
    /\ tpc = "handle_rate_limit"
    /\ mr_result.kind = "raise"
    /\ ~IsRetried(mr_result.msg, hrl_retries)
    /\ outcome' = mr_result
    /\ tpc' = "done"
    /\ UNCHANGED <<query, mr_retries, mr_requests, mr_slept, mr_result, last_status,
                   hrl_retries, hrl_calls, hrl_slept, total_requests>>
    /\ UNCHANGED <<runVars, mergeVars, statsVars, pureVars>>

\* content is None or "": `if not html_content: return ""`.  Otherwise the
\* document is a sequence of elements [tag, text], text a sequence of characters.
\* soup.find_all('pre') / extract(): the pre elements are removed.
RECURSIVE RemovePre(_)
RemovePre(doc) ==
    IF doc = <<>> THEN <<>>
    ELSE IF Head(doc).tag = "pre" THEN RemovePre(Tail(doc))
         ELSE <<Head(doc)>> \o RemovePre(Tail(doc))

\* soup.get_text(): the text of the elements, concatenated.
RECURSIVE GetText(_)
GetText(doc) ==
    IF doc = <<>> THEN <<>> ELSE Head(doc).text \o GetText(Tail(doc))

IsSpace(c) == c \in {" ", "\n"}

\* Length of the longest match of \s*\n at the head of text (0 when none):
\* the greedy \s* backtracks to the last newline of the whitespace run.
RECURSIVE LastNewline(_, _, _)
LastNewline(text, k, best) ==
    IF k > Len(text) \/ ~IsSpace(text[k]) THEN best
    ELSE LastNewline(text, k + 1, IF text[k] = "\n" THEN k ELSE best)

\* re.sub(r'\n\s*\n', '\n\n', text), scanning left to right.
RECURSIVE CollapseBlankLines(_)
CollapseBlankLines(text) ==
    IF text = <<>> THEN <<>>
    ELSE IF Head(text) = "\n" /\ LastNewline(Tail(text), 1, 0) > 0
         THEN <<"\n", "\n">> \o
              CollapseBlankLines(SubSeq(text, LastNewline(Tail(text), 1, 0) + 2, Len(text)))
         ELSE <<Head(text)>> \o CollapseBlankLines(Tail(text))

\* re.sub(r' +', ' ', text).
RECURSIVE CollapseSpaces(_)
CollapseSpaces(text) ==
    IF text = <<>> THEN <<>>
    ELSE IF Head(text) = " " /\ Len(text) > 1 /\ text[2] = " "
         THEN CollapseSpaces(Tail(text))
         ELSE <<Head(text)>> \o CollapseSpaces(Tail(text))

\* str.strip().
RECURSIVE Strip(_)
Strip(text) ==
    IF text = <<>> THEN <<>>
    ELSE IF IsSpace(Head(text)) THEN Strip(Tail(text))
    ELSE IF IsSpace(text[Len(text)]) THEN Strip(SubSeq(text, 1, Len(text) - 1))
    ELSE text

MutParseHtmlContentNoGuard(html_content) ==
    IF html_content = <<>> THEN <<"TypeError">>
    ELSE Strip(CollapseSpaces(CollapseBlankLines(GetText(RemovePre(html_content)))))

MutParseHtmlContentKeepsPre(html_content) ==
    IF html_content = <<>> THEN <<>>
    ELSE Strip(CollapseSpaces(CollapseBlankLines(GetText(html_content))))

parse_html_content(html_content) ==
    IF html_content = <<>> THEN <<>>
    ELSE Strip(CollapseSpaces(CollapseBlankLines(GetText(RemovePre(html_content)))))

(***************************************************************************)
(* src/scraper.py                                                          *)
(***************************************************************************)
\* A dict lookup with default: d.get(key, default).
Get(d, key, default) == IF key \in DOMAIN d THEN d[key] ELSE default

ScrapeDefaults(slug) ==
    [title |-> slug, description |-> <<>>, difficulty |-> "Unknown", tags |-> <<>>]

\* What requests.get of the problem page can do: a non-200 status, a raised
\* exception, or a page in which each of the four lookups finds its element or not.
PageResponse(page) == [kind |-> "page", page |-> page]
PageFailures == {[kind |-> "status", page |-> <<>>], [kind |-> "exception", page |-> <<>>]}
NoScrape == [kind |-> "none", page |-> <<>>]

\* title_elem.text.replace(' - LeetCode', '') on the titles of the model.
WithoutSiteName(title) ==
    CASE title = "Two Sum - LeetCode" -> "Two Sum"
      [] title = "LRU Cache - LeetCode" -> "LRU Cache"
      [] OTHER -> title

MutScrapeAllOrNothing(slug, response) ==
    IF response.kind # "page" THEN ScrapeDefaults(slug)
    ELSE LET page == response.page IN
         IF page.has_title /\ page.has_description /\ page.has_difficulty /\ page.has_tags
         THEN [title |-> WithoutSiteName(page.title),
               description |-> Strip(IF page.has_container
                                     THEN CollapseSpaces(CollapseBlankLines(page.description))
                                     ELSE page.description),
               difficulty |-> page.difficulty,
               tags |-> page.tags]
         ELSE ScrapeDefaults(slug)

\* The page has the question-title container or not; has_description tells
\* whether the description element of the layout at hand is found (the
\* content div after the container, else div.question-content).  Only the
\* container layout has its whitespace collapsed; both are stripped.
scrape_problem_description(slug, response) ==
    IF response.kind # "page" THEN ScrapeDefaults(slug)
    ELSE LET page == response.page
             text == IF page.has_description THEN page.description ELSE <<>>
         IN [title |-> IF page.has_title THEN WithoutSiteName(page.title) ELSE slug,
             description |-> Strip(IF page.has_container
                                   THEN CollapseSpaces(CollapseBlankLines(text))
                                   ELSE text),
             difficulty |-> IF page.has_difficulty THEN page.difficulty ELSE "Unknown",
             tags |-> IF page.has_tags THEN page.tags ELSE <<>>]

\* What scrape_submission_code yields: the code of the page, or None.
ScrapedCodes == {"scraped code", None}

(***************************************************************************)
(* src/fetcher.py: fetch_solved_questions                                  *)
(***************************************************************************)
\* slug.replace('-', ' ').title() on the slugs of the model.
SlugTitle(slug) ==
    CASE slug = "two-sum" -> "Two Sum"
      [] slug = "lru-cache" -> "Lru Cache"
      [] slug = "n-queens" -> "N Queens"
      [] OTHER -> slug

\* difficulties.get(level, "Unknown")
DifficultyName(level) ==
    CASE level = 1 -> "Easy"
      [] level = 2 -> "Medium"
      [] level = 3 -> "Hard"
      [] OTHER -> "Unknown"

\* The loop over stat_status_pairs.
RECURSIVE SolvedOf(_)
SolvedOf(pairs) ==
    IF pairs = <<>> THEN <<>>
    ELSE LET pair == Head(pairs) IN
         IF pair.status # "ac" \/ pair.slug = None THEN SolvedOf(Tail(pairs))
         ELSE <<[slug |-> pair.slug,
                 title |-> IF pair.title # None THEN pair.title ELSE SlugTitle(pair.slug),
                 difficulty |-> DifficultyName(pair.level)]>> \o SolvedOf(Tail(pairs))

(***************************************************************************)
(* src/fetcher.py: fetch_submissions_for_question                          *)
(***************************************************************************)
\* int(sub["timestamp"]): the value, or the exception raised.
ParseTimestamp(ts) ==
    CASE ts.form \in {"int", "digits"} -> [ok |-> TRUE, val |-> ts.n, error |-> None]
      [] ts.form = "text" -> [ok |-> FALSE, val |-> 0, error |-> "ValueError"]
      [] ts.form = "null" -> [ok |-> FALSE, val |-> 0, error |-> "TypeError"]
      [] OTHER -> [ok |-> FALSE, val |-> 0, error |-> "KeyError"]

\* str(sub["timestamp"]) of a timestamp int() accepted.
TimestampStr(ts) == [form |-> "digits", n |-> ts.n]

CodePlaceholder == "// Code could not be retrieved"

\* Position of lang among the keys of accepted_subs_details (0: not a key).
KeyIndex(acc, lang) ==
    IF \E k \in 1..Len(acc) : acc[k].language = lang
    THEN CHOOSE k \in 1..Len(acc) : acc[k].language = lang
    ELSE 0

MutIsNewerKeepsOldest(acc, lang, current_ts) ==
    \/ KeyIndex(acc, lang) = 0
    \/ current_ts < ParseTimestamp(acc[KeyIndex(acc, lang)].timestamp).val

MutIsNewerOrSame(acc, lang, current_ts) ==
    \/ KeyIndex(acc, lang) = 0
    \/ current_ts >= ParseTimestamp(acc[KeyIndex(acc, lang)].timestamp).val

\* `lang not in accepted_subs_details or current_ts > int(...[lang]["timestamp"])`

IsNewer(acc, lang, current_ts) ==
    \/ KeyIndex(acc, lang) = 0
    \/ current_ts > ParseTimestamp(acc[KeyIndex(acc, lang)].timestamp).val

\* The code stored for a submission that is kept: the dump's, else the scraped
\* one (only with a submission id), else the placeholder; `code or ""` at the end.
CodeOf(sub, scraped) ==
    IF sub.code # None THEN sub.code
    ELSE IF sub.id = None THEN ""
    ELSE IF scraped # None THEN scraped
    ELSE CodePlaceholder

\* One iteration of the loop over api_submissions.  The state is the dict (a
\* sequence in insertion order: assigning an existing key keeps its place), the
\* ids scrape_submission_code was called with, and whether an exception left the loop.
MergeStep(st, sub, scraped) ==
    IF st.failed \/ sub.status_display # "Accepted" \/ sub.lang = None THEN st
    ELSE LET parsed == ParseTimestamp(sub.timestamp) IN
         IF ~parsed.ok
         THEN IF parsed.error = "KeyError" THEN [st EXCEPT !.failed = TRUE] ELSE st
         ELSE IF ~IsNewer(st.acc, sub.lang, parsed.val) THEN st
         ELSE LET record == [status |-> sub.status_display,
                             timestamp |-> TimestampStr(sub.timestamp),
                             runtime |-> sub.runtime,
                             memory |-> sub.memory,
                             language |-> sub.lang,
                             submission_id |-> sub.id,
                             code |-> CodeOf(sub, scraped)]
                  k == KeyIndex(st.acc, sub.lang)
              IN [acc |-> IF k = 0 THEN Append(st.acc, record)
                          ELSE [st.acc EXCEPT ![k] = record],
                  scraped |-> IF sub.code = None /\ sub.id # None
                              THEN Append(st.scraped, sub.id) ELSE st.scraped,
                  failed |-> FALSE]

RECURSIVE MergeLoop(_, _, _, _)
MergeLoop(st, api_submissions, scraped, k) ==
    IF k > Len(api_submissions) THEN st
    ELSE MergeLoop(MergeStep(st, api_submissions[k], scraped[k]),
                   api_submissions, scraped, k + 1)

MergeStart == [acc |-> <<>>, scraped |-> <<>>, failed |-> FALSE]

\* The part of fetch_submissions_for_question after response.json().
MergeSubmissions(api_submissions, scraped) ==
    MergeLoop(MergeStart, api_submissions, scraped, 1)

\* list(accepted_subs_details.values()), or [] from the except branch.
MergedList(st) == IF st.failed THEN <<>> ELSE st.acc

\* What requests.get of the submissions endpoint can do.
SubmissionFailures == {"status_403", "status_429", "status_500", "exception", "bad_json"}

(***************************************************************************)
(* src/fetcher.py: fetch_problem_details                                   *)
(***************************************************************************)
TypeErrorMsg == <<"argument of type 'NoneType' is not iterable">>

MutMinimalDetailsNoMessage(slug, e) ==
    [title |-> SlugTitle(slug), description |-> <<>>, difficulty |-> "Unknown",
     tags |-> <<>>]

\* The dict of the except branch.
MinimalDetails(slug, e) ==
    [title |-> SlugTitle(slug),
     description |-> <<"Error fetching details: ">> \o e,
     difficulty |-> "Unknown",
     tags |-> <<>>]

\* The GraphQL question record of a slug, and its content as a document.
QuestionContent(slug) ==
    <<[tag |-> "pre", text |-> <<"x", " ", " ", "y">>],
      [tag |-> "p", text |-> <<IF slug = "two-sum" THEN "a" ELSE "b", " ", " ", "c", "\n">>]>>

Question(slug, body) ==
    [title |-> IF slug = "two-sum" THEN "Two Sum" ELSE "LRU Cache",
     content |-> IF body = "question_no_content" THEN <<>> ELSE QuestionContent(slug),
     difficulty |-> IF slug = "two-sum" THEN "Easy" ELSE "Medium",
     topicTags |-> <<"Array">>]

MutEnvelopeFailedOnErrorsOnly(body) == body = "errors"

\* Whether the function takes the scraper branch: the envelope test on a dict.
EnvelopeFailed(body) == body \in {"errors", "no_data", "no_question"}

\* Whether fetch_problem_details calls scrape_problem_description for this outcome.
Scrapes(result) ==
    result.kind = "return" /\ result.value # None /\ EnvelopeFailed(result.value)

\* fetch_problem_details after handle_rate_limit: result is how that call
\* ended, response what the problem page answers if the scraper is called.
problem_details(slug, result, response) ==
    IF result.kind = "raise" THEN MinimalDetails(slug, result.msg)
    ELSE IF result.value = None THEN MinimalDetails(slug, TypeErrorMsg)
    ELSE IF EnvelopeFailed(result.value)
         THEN LET scraped_data == scrape_problem_description(slug, response) IN
              [title |-> Get(scraped_data, "title", slug),
               description |-> Get(scraped_data, "description",
                                   <<"Could not fetch description.">>),
               difficulty |-> Get(scraped_data, "difficulty", "Unknown"),
               tags |-> Get(scraped_data, "tags", <<>>)]
    ELSE LET question == Question(slug, result.value) IN
         [title |-> Get(question, "title", slug),
          description |-> parse_html_content(question.content),
          difficulty |-> Get(question, "difficulty", "Unknown"),
          tags |-> question.topicTags]

(***************************************************************************)
(* src/fetcher.py: process_data                                            *)
(***************************************************************************)
\* The loop over acSubmissionNum.
RECURSIVE StatsLoop(_, _)
StatsLoop(st, items) ==
    IF items = <<>> THEN st
    ELSE LET item == Head(items) IN
         StatsLoop(IF item.difficulty \in DOMAIN st.difficulty_map
                   THEN [difficulty_map |->
                            [st.difficulty_map EXCEPT ![item.difficulty] = item.count],
                         total_solved |-> st.total_solved + item.count]
                   ELSE st,
                   Tail(items))

StatsStart ==
    [difficulty_map |-> [d \in {"Easy", "Medium", "Hard"} |-> 0], total_solved |-> 0]

\* The profile_stats block of the returned dict.
ProfileStatsBlock(items) ==
    LET st == StatsLoop(StatsStart, items) IN
    [total_solved |-> st.total_solved,
     easy |-> st.difficulty_map["Easy"],
     medium |-> st.difficulty_map["Medium"],
     hard |-> st.difficulty_map["Hard"]]

\* The dict appended to problems_output.
ProblemDetail(question_info, details, submissions) ==
    [title |-> Get(details, "title", Get(question_info, "title", question_info.slug)),
     slug |-> question_info.slug,
     difficulty |-> Get(details, "difficulty",
                        Get(question_info, "difficulty", "Unknown")),
     description |-> Get(details, "description", <<>>),
     tags |-> Get(details, "tags", <<>>),
     submissions |-> submissions]

\* The delay after the question at 0-based index idx, in tenths of a second.
Delay(idx) == IF idx > 0 /\ idx % 10 = 0 THEN 15 ELSE 7

(***************************************************************************)
(* The inputs of the run.                                                  *)
(***************************************************************************)
MaxPairs == 2

RECURSIVE SeqsUpTo(_, _)
SeqsUpTo(S, n) ==
    IF n = 0 THEN {<<>>}
    ELSE LET shorter == SeqsUpTo(S, n - 1) IN
         shorter \cup {Append(q, x) : q \in {r \in shorter : Len(r) = n - 1}, x \in S}

Pair(status, slug, title, level) ==
    [status |-> status, slug |-> slug, title |-> title, level |-> level]

PairValues ==
    {Pair("ac", "two-sum", None, 1),
     Pair("ac", "lru-cache", "LRU Cache", 2),
     Pair("notac", "n-queens", "N-Queens", 3),
     Pair("ac", None, "Untitled", 4)}

\* The stat_status_pairs lists the problems endpoint may answer with.
PairLists == SeqsUpTo(PairValues, MaxPairs)

Item(difficulty, count) == [difficulty |-> difficulty, count |-> count]

\* The acSubmissionNum lists the profile query may answer with in a run.
RunStats ==
    {<<Item("All", 3), Item("Easy", 1), Item("Medium", 2), Item("Hard", 0)>>,
     <<>>}

Sub(status, lang, ts, id, code) ==
    [status_display |-> status, lang |-> lang, timestamp |-> [form |-> "int", n |-> ts],
     id |-> id, code |-> code, runtime |-> "1 ms", memory |-> "10 MB"]

\* The submissions_dump lists the submissions endpoint may answer with in a run.
RunDumps ==
    {<<>>,
     <<Sub("Wrong Answer", "cpp", 3, "s1", None)>>,
     <<Sub("Accepted", "python3", 2, "s1", "class Solution")>>,
     <<[Sub("Accepted", "cpp", 0, "s2", "int main")
           EXCEPT !.timestamp = [form |-> "missing", n |-> 0]]>>}

FullPage(slug) ==
    [has_title |-> TRUE, title |-> SlugTitle(slug),
     has_container |-> TRUE,
     has_description |-> TRUE, description |-> <<"d", " ", " ", "e", "\n">>,
     has_difficulty |-> TRUE, difficulty |-> "Hard",
     has_tags |-> TRUE, tags |-> <<"Hash Table">>]

\* What the problem page may answer with in a run.
RunPages(slug) == PageFailures \cup {PageResponse(FullPage(slug))}

(***************************************************************************)
(* src/main.py and the fetcher's methods, in call order.                   *)
(***************************************************************************)
\* main's except branch: print the error, sys.exit(1).
Fail(message) ==
    /\ stderr_error' = message
    /\ exit_status' = "exit1"
    /\ pc' = "exit"

\* How handle_rate_limit(lambda: make_request(...)) can end for a query: with
\* a 200's body, with None (the loop ran out), or with make_request's exception
\* for a 403, another status, or exhausted network retries.
CallOutcomes(q) ==
    {Return(body) : body \in Bodies(q) \cup {None}}
        \cup {Raise(AuthFailedMsg), Raise(RequestFailedMsg(500)), Raise(RetriesExhaustedMsg)}

\* main up to the first request: the fetcher is built, test_connection begins.
Start ==
    /\ pc = "start"
    /\ pc' = "test_connection"
    /\ UNCHANGED <<exit_status, stdout, profile_stats, enumeration, solved_questions,
                   i, problems_output, submissions_list, subs_response, subs_dump,
                   scrape_calls, details_result, scrape_response, processed_stats,
                   pd_slept, stderr_error, auth_result, stats_result>>
    /\ UNCHANGED <<transportVars, mergeVars, statsVars, pureVars>>

MutTestConnectionErrorOnRaiseOnly(result) ==
    IF result.kind = "raise" THEN <<"API Connection Test Failed: ">> \o result.msg
    ELSE <<>>

\* The message test_connection raises for how its request ended (<<>>: none).
TestConnectionError(result) ==
    LET e == IF result.kind = "raise" THEN result.msg
             ELSE IF result.value = None
                  THEN <<"'NoneType' object has no attribute 'get'">>
             ELSE IF result.value # "signed_in"
                  THEN <<"Authentication failed", " or user not signed in (checked via GraphQL).">>
             ELSE <<>>
    IN IF e = <<>> THEN <<>>
       ELSE IF Contains(e, "Authentication failed")
            THEN <<"Authentication failed", " during connection test: ">> \o e
                     \o <<". Check cookies.">>
       ELSE <<"API Connection Test Failed: ">> \o e

\* test_connection: its request, then the signed-in test.
TestConnection ==
    /\ pc = "test_connection"
    /\ \E result \in CallOutcomes("test_connection") :
         /\ auth_result' = result
         /\ IF TestConnectionError(result) = <<>>
            THEN /\ pc' = "fetch_profile_stats"
                 /\ UNCHANGED <<exit_status, stderr_error>>
            ELSE Fail(TestConnectionError(result))
    /\ UNCHANGED <<stdout, profile_stats, enumeration, solved_questions, i,
                   problems_output, submissions_list, subs_response, subs_dump,
                   scrape_calls, details_result, scrape_response, processed_stats,
                   pd_slept, stats_result>>
    /\ UNCHANGED <<transportVars, mergeVars, statsVars, pureVars>>

MutProfileStatsErrorOnErrorsOnly(result) ==
    LET e == IF result.kind = "raise" THEN result.msg
             ELSE IF result.value = None THEN TypeErrorMsg
             ELSE IF result.value = "errors"
                  THEN <<"GraphQL error fetching profile stats: ", result.value>>
             ELSE <<>>
    IN IF e = <<>> THEN <<>> ELSE <<"Failed to fetch profile stats: ">> \o e

\* The message fetch_profile_stats raises for how its request ended (<<>>: none).
ProfileStatsError(result) ==
    LET e == IF result.kind = "raise" THEN result.msg
             ELSE IF result.value = None THEN TypeErrorMsg
             ELSE IF result.value # "matched_user"
                  THEN <<"GraphQL error fetching profile stats: ", result.value>>
             ELSE <<>>
    IN IF e = <<>> THEN <<>> ELSE <<"Failed to fetch profile stats: ">> \o e

\* fetch_profile_stats: its request, then the envelope test.
FetchProfileStats ==
    /\ pc = "fetch_profile_stats"
    /\ \E result \in CallOutcomes("fetch_profile_stats") :
         /\ stats_result' = result
         /\ IF ProfileStatsError(result) = <<>>
            THEN /\ \E items \in RunStats : profile_stats' = items
                 /\ pc' = "fetch_solved_questions"
                 /\ UNCHANGED <<exit_status, stderr_error>>
            ELSE /\ Fail(ProfileStatsError(result))
                 /\ UNCHANGED profile_stats
    /\ UNCHANGED <<stdout, enumeration, solved_questions, i, problems_output,
                   submissions_list, subs_response, subs_dump, scrape_calls,
                   details_result, scrape_response, processed_stats, pd_slept,
                   auth_result>>
    /\ UNCHANGED <<transportVars, mergeVars, statsVars, pureVars>>

\* What requests.get of the problems endpoint can do besides a parsable 200.
EnumerationFailures == {"status_401", "status_403", "status_500", "exception", "bad_json"}

\* The message fetch_solved_questions raises for a failure.
SolvedQuestionsError(failure) ==
    CASE failure \in {"status_401", "status_403"} ->
            <<"Authentication failed", " fetching solved questions (Status ",
              failure, "). Check cookies.">>
      [] failure = "status_500" -> <<"HTTP error fetching solved questions: ", failure>>
      [] failure = "exception" -> <<"Network error fetching solved questions: ">>
                                      \o NetworkErrorText
      [] OTHER -> <<"Failed to parse solved questions list: ", failure>>

MutFetchSolvedQuestionsDegrades(failure) ==
    /\ enumeration' = failure
    /\ solved_questions' = <<>>
    /\ processed_stats' = ProfileStatsBlock(profile_stats)
    /\ problems_output' = <<>>
    /\ i' = 0
    /\ pc' = "output"
    /\ UNCHANGED <<exit_status, stderr_error>>

\* fetch_solved_questions raised: main's except branch.
FetchSolvedQuestionsFail(failure) ==
    /\ enumeration' = failure
    /\ Fail(SolvedQuestionsError(failure))
    /\ UNCHANGED <<solved_questions, processed_stats, problems_output, i>>

\* fetch_solved_questions returned; main calls process_data, which computes the
\* profile statistics and enters its loop.
FetchSolvedQuestionsOk(pairs) ==
    /\ enumeration' = "status_200"
    /\ solved_questions' = SolvedOf(pairs)
    /\ processed_stats' = ProfileStatsBlock(profile_stats)
    /\ problems_output' = <<>>
    /\ i' = 0
    /\ pc' = IF SolvedOf(pairs) = <<>> THEN "output" ELSE "fetch_submissions"
    /\ UNCHANGED <<exit_status, stderr_error>>

FetchSolvedQuestions ==
    /\ pc = "fetch_solved_questions"
    /\ \/ \E failure \in EnumerationFailures : FetchSolvedQuestionsFail(failure)
       \/ \E pairs \in PairLists : FetchSolvedQuestionsOk(pairs)
    /\ UNCHANGED <<stdout, profile_stats, submissions_list, subs_response, subs_dump,
                   scrape_calls, details_result, scrape_response, pd_slept,
                   auth_result, stats_result>>
    /\ UNCHANGED <<transportVars, mergeVars, statsVars, pureVars>>

MutSubmissionsResultDropsAll(response, api_submissions, scraped) ==
    IF response \in SubmissionFailures \/ Len(api_submissions) > 0 THEN <<>>
    ELSE MergedList(MergeSubmissions(api_submissions, scraped))

\* What fetch_submissions_for_question returns.
SubmissionsResult(response, api_submissions, scraped) ==
    IF response \in SubmissionFailures THEN <<>>
    ELSE MergedList(MergeSubmissions(api_submissions, scraped))

\* fetch_submissions_for_question for solved_questions[i].
FetchSubmissions ==
    /\ pc = "fetch_submissions"
    /\ \E response \in SubmissionFailures \cup {"status_200"} :
         \E api_submissions \in IF response = "status_200" THEN RunDumps ELSE {<<>>} :
           \E scraped \in [1..Len(api_submissions) -> ScrapedCodes] :
             /\ subs_response' = response
             /\ subs_dump' = api_submissions
             /\ submissions_list' = SubmissionsResult(response, api_submissions, scraped)
    /\ details_result' = NoResult
    /\ scrape_response' = NoScrape
    /\ pc' = "fetch_problem_details"
    /\ UNCHANGED <<exit_status, stdout, profile_stats, enumeration, solved_questions,
                   i, problems_output, scrape_calls, processed_stats, pd_slept,
                   stderr_error, auth_result, stats_result>>
    /\ UNCHANGED <<transportVars, mergeVars, statsVars, pureVars>>

MutFetchProblemDetailsEscapes ==
    /\ pc = "fetch_problem_details"
    /\ LET question_info == solved_questions[i + 1]
           slug == question_info.slug
       IN \E result \in CallOutcomes("fetch_problem_details") :
            \E response \in IF Scrapes(result) THEN RunPages(slug) ELSE {NoScrape} :
              /\ details_result' = result
              /\ scrape_response' = response
              /\ scrape_calls' = IF Scrapes(result) THEN Append(scrape_calls, slug)
                                 ELSE scrape_calls
              /\ IF result.kind = "raise"
                 THEN /\ Fail(result.msg)
                      /\ UNCHANGED <<problems_output, pd_slept, i>>
                 ELSE /\ problems_output' =
                           Append(problems_output,
                                  ProblemDetail(question_info,
                                                problem_details(slug, result, response),
                                                submissions_list))
                      /\ pd_slept' = Append(pd_slept, Delay(i))
                      /\ i' = i + 1
                      /\ pc' = IF i + 1 < Len(solved_questions)
                               THEN "fetch_submissions" ELSE "output"
                      /\ UNCHANGED <<exit_status, stderr_error>>
    /\ UNCHANGED <<stdout, profile_stats, enumeration, solved_questions,
                   submissions_list, subs_response, subs_dump, processed_stats,
                   auth_result, stats_result>>
    /\ UNCHANGED <<transportVars, mergeVars, statsVars, pureVars>>

\* fetch_problem_details for solved_questions[i] (its request, the scraper when
\* the envelope test fails), then the rest of the loop body: append, sleep, next.
FetchProblemDetails ==
    /\ pc = "fetch_problem_details"
    /\ LET question_info == solved_questions[i + 1]
           slug == question_info.slug
       IN \E result \in CallOutcomes("fetch_problem_details") :
            \E response \in IF Scrapes(result) THEN RunPages(slug) ELSE {NoScrape} :
              /\ details_result' = result
              /\ scrape_response' = response
              /\ scrape_calls' = IF Scrapes(result) THEN Append(scrape_calls, slug)
                                 ELSE scrape_calls
              /\ problems_output' =
                   Append(problems_output,
                          ProblemDetail(question_info,
                                        problem_details(slug, result, response),
                                        submissions_list))
    /\ pd_slept' = Append(pd_slept, Delay(i))
    /\ i' = i + 1
    /\ pc' = IF i + 1 < Len(solved_questions) THEN "fetch_submissions" ELSE "output"
    /\ UNCHANGED <<exit_status, stdout, profile_stats, enumeration, solved_questions,
                   submissions_list, subs_response, subs_dump, processed_stats,
                   stderr_error, auth_result, stats_result>>
    /\ UNCHANGED <<transportVars, mergeVars, statsVars, pureVars>>

\* process_data returns its dict; main prints it and returns.
Output ==
    /\ pc = "output"
    /\ stdout' = Append(stdout, [profile_stats |-> processed_stats,
                                 problems |-> problems_output])
    /\ exit_status' = "exit0"
    /\ pc' = "exit"
    /\ UNCHANGED <<profile_stats, enumeration, solved_questions, i, problems_output,
                   submissions_list, subs_response, subs_dump, scrape_calls,
                   details_result, scrape_response, processed_stats, pd_slept,
                   stderr_error, auth_result, stats_result>>
    /\ UNCHANGED <<transportVars, mergeVars, statsVars, pureVars>>

NoStats == [total_solved |-> 0, easy |-> 0, medium |-> 0, hard |-> 0]

InitTransport ==
    /\ query = "none"
    /\ tpc = "idle"
    /\ mr_retries = 0
    /\ mr_requests = 0
    /\ mr_slept = <<>>
    /\ mr_result = NoResult
    /\ last_status = NoPost
    /\ hrl_retries = 0
    /\ hrl_calls = 0
    /\ hrl_slept = <<>>
    /\ total_requests = 0
    /\ outcome = NoResult

InitRun ==
    /\ pc = "start"
    /\ exit_status = "running"
    /\ stdout = <<>>
    /\ profile_stats = <<>>
    /\ enumeration = "none"
    /\ solved_questions = <<>>
    /\ i = 0
    /\ problems_output = <<>>
    /\ submissions_list = <<>>
    /\ subs_response = "none"
    /\ subs_dump = <<>>
    /\ scrape_calls = <<>>
    /\ details_result = NoResult
    /\ scrape_response = NoScrape
    /\ processed_stats = NoStats
    /\ pd_slept = <<>>
    /\ stderr_error = <<>>
    /\ auth_result = NoResult
    /\ stats_result = NoResult

InitMerge ==
    /\ dump = <<>>
    /\ scraped_code = <<>>
    /\ merged = MergeStart
    /\ mk = 1
    /\ mpc = "idle"

InitStats ==
    /\ stats_in = <<>>
    /\ stats_out = NoStats
    /\ spc = "idle"

InitPure ==
    /\ fn_input = <<>>
    /\ fn_output = <<>>
    /\ fn_pc = "idle"

Init == InitRun /\ InitTransport /\ InitMerge /\ InitStats /\ InitPure

Next ==
    \/ Start
    \/ TestConnection
    \/ FetchProfileStats
    \/ FetchSolvedQuestions
    \/ FetchSubmissions
    \/ FetchProblemDetails
    \/ Output

Spec == Init /\ [][Next]_vars

(***************************************************************************)
(* One call of handle_rate_limit(lambda: make_request(...)), request by    *)
(* request, for each of the three queries.                                 *)
(***************************************************************************)
\* The caller enters handle_rate_limit: retries = 0, the while test holds,
\* request_func() is invoked and make_request sets its own retries = 0.
InitCall ==
    /\ query \in {"test_connection", "fetch_profile_stats", "fetch_problem_details"}
    /\ tpc = "make_request"
    /\ mr_retries = 0
    /\ mr_requests = 0
    /\ mr_slept = <<>>
    /\ mr_result = NoResult
    /\ last_status = NoPost
    /\ hrl_retries = 0
    /\ hrl_calls = 1
    /\ hrl_slept = <<>>
    /\ total_requests = 0
    /\ outcome = NoResult

InitTransportStudy == InitRun /\ InitCall /\ InitMerge /\ InitStats /\ InitPure

NextTransport ==
    \/ MakeRequest
    \/ HandleRateLimitReturn
    \/ HandleRateLimitBackoff
    \/ HandleRateLimitRaise

SpecTransport == InitTransportStudy /\ [][NextTransport]_vars

\* The same call when the interpreter keeps running: every request is answered
\* or raises (timeout=30) and every time.sleep returns, so a step that can be
\* taken is eventually taken.
SpecTransportLive == SpecTransport /\ WF_vars(NextTransport)

\* The run's CallOutcomes is what the request-by-request call can end with.
CallOutcomesSound == tpc = "done" => outcome \in CallOutcomes(query)

(***************************************************************************)
(* The merge loop of fetch_submissions_for_question on every small dump.   *)
(***************************************************************************)
MaxDump == 3
MaxTimestamp == 2

SubmissionIds == <<"s1", "s2", "s3", "s4", "s5", "s6">>

\* Dump entries before their ids: Accepted ones per language, timestamp and
\* embedded code, one without a language, and rejected ones newer than all.
SubValues ==
    {Sub("Accepted", lang, ts, None, code) :
        lang \in {"python3", "cpp"}, ts \in 1..MaxTimestamp, code \in {"class Solution", None}}
    \cup {Sub("Accepted", None, MaxTimestamp, None, "class Solution")}
    \cup {Sub("Wrong Answer", lang, MaxTimestamp + 1, None, None) : lang \in {"python3", "cpp"}}

\* A dump entry with nothing but status, language and timestamp: sub.get("id")
\* and sub.get("code") are None, runtime and memory take their "N/A" default.
BareEntry ==
    [Sub("Accepted", "python3", 1, None, None) EXCEPT !.runtime = "N/A", !.memory = "N/A"]

\* Submission ids are unique: the entry at position k has the k-th id, a bare
\* entry has none.
WithIds(entries) ==
    [k \in 1..Len(entries) |->
        IF entries[k] = BareEntry THEN entries[k]
        ELSE [entries[k] EXCEPT !.id = SubmissionIds[k]]]

Dumps == {WithIds(entries) : entries \in SeqsUpTo(SubValues \cup {BareEntry}, MaxDump)}

InitMergeStudy ==
    /\ InitRun /\ InitTransport /\ InitStats /\ InitPure
    /\ dump \in Dumps
    /\ scraped_code = <<>>
    /\ merged = MergeStart
    /\ mk = 1
    /\ mpc = "loop"

\* Whether the iteration for sub calls scrape_submission_code.
CallsScrape(st, sub) == MergeStep(st, sub, None).scraped # st.scraped

\* One iteration of `for sub in api_submissions`; scrape_submission_code, when
\* called, answers with the code or None (None is recorded when it is not called).
MergeIteration ==
    /\ mpc = "loop"
    /\ mk <= Len(dump)
    /\ \E scraped \in IF CallsScrape(merged, dump[mk]) THEN ScrapedCodes ELSE {None} :
         /\ scraped_code' = Append(scraped_code, scraped)
         /\ merged' = MergeStep(merged, dump[mk], scraped)
    /\ mk' = mk + 1
    /\ UNCHANGED <<dump, mpc>>
    /\ UNCHANGED <<runVars, transportVars, statsVars, pureVars>>

\* The loop is over: return list(accepted_subs_details.values()).
MergeReturn ==
    /\ mpc = "loop"
    /\ mk > Len(dump)
    /\ mpc' = "returned"
    /\ UNCHANGED <<dump, scraped_code, merged, mk>>
    /\ UNCHANGED <<runVars, transportVars, statsVars, pureVars>>

NextMerge == MergeIteration \/ MergeReturn

SpecMerge == InitMergeStudy /\ [][NextMerge]_vars

(***************************************************************************)
(* The merge loop on dumps with one malformed record.                      *)
(***************************************************************************)
\* Accepted entries whose timestamp is a non-numeric string, null, or absent.
MalformedEntries ==
    {[Sub("Accepted", lang, 0, None, "class Solution")
         EXCEPT !.timestamp = [form |-> form, n |-> 0]] :
        lang \in {"python3"}, form \in {"text", "null", "missing"}}

InsertAt(entries, pos, entry) ==
    SubSeq(entries, 1, pos - 1) \o <<entry>> \o SubSeq(entries, pos, Len(entries))

\* A well-formed dump of fewer than MaxDump entries with one malformed entry
\* put in at any position.
MalformedDumps ==
    {WithIds(InsertAt(x[1], x[2], bad)) :
        x \in {y \in SeqsUpTo(SubValues \cup {BareEntry}, MaxDump - 1) \X (1..MaxDump) :
                  y[2] <= Len(y[1]) + 1},
        bad \in MalformedEntries}

InitMalformedStudy ==
    /\ InitRun /\ InitTransport /\ InitStats /\ InitPure
    /\ dump \in MalformedDumps
    /\ scraped_code = <<>>
    /\ merged = MergeStart
    /\ mk = 1
    /\ mpc = "loop"

SpecMalformed == InitMalformedStudy /\ [][NextMerge]_vars

(***************************************************************************)
(* The statistics block of process_data on every small acSubmissionNum.    *)
(***************************************************************************)
MaxItems == 3
MaxCount == 2

ItemValues ==
    {Item(difficulty, count) :
        difficulty \in {"All", "Easy", "Medium", "Hard", "Expert"}, count \in 0..MaxCount}

InitStatsStudy ==
    /\ InitRun /\ InitTransport /\ InitMerge /\ InitPure
    /\ stats_in \in SeqsUpTo(ItemValues, MaxItems)
    /\ stats_out = NoStats
    /\ spc = "input"

\* process_data's statistics and the profile_stats block it returns.
ComputeStats ==
    /\ spc = "input"
    /\ stats_out' = ProfileStatsBlock(stats_in)
    /\ spc' = "computed"
    /\ UNCHANGED stats_in
    /\ UNCHANGED <<runVars, transportVars, mergeVars, pureVars>>

SpecStats == InitStatsStudy /\ [][ComputeStats]_vars

(***************************************************************************)
(* scrape_problem_description on every small problem page.                 *)
(***************************************************************************)
Booleans == {TRUE, FALSE}

\* Problem pages: each of the four lookups finds its element or not, in either
\* layout, with or without the site name in the title.
StudyPages ==
    {[has_title |-> ht, title |-> t,
      has_container |-> hc,
      has_description |-> hd, description |-> <<" ", "d", " ", " ", "e", "\n">>,
      has_difficulty |-> hf, difficulty |-> "Medium",
      has_tags |-> hg, tags |-> <<"Array", "Hash Table">>] :
        ht \in Booleans, t \in {"Two Sum - LeetCode", "Two Sum"}, hc \in Booleans,
        hd \in Booleans, hf \in Booleans, hg \in Booleans}

ScrapeInputs ==
    {[slug |-> slug, response |-> response] :
        slug \in {"two-sum", "lru-cache"},
        response \in PageFailures \cup {PageResponse(page) : page \in StudyPages}}

InitScrapeStudy ==
    /\ InitRun /\ InitTransport /\ InitMerge /\ InitStats
    /\ fn_input \in ScrapeInputs
    /\ fn_output = <<>>
    /\ fn_pc = "call"

\* scrape_problem_description(slug) with the page answering as the input says.
ScrapeProblemDescription ==
    /\ fn_pc = "call"
    /\ fn_output' = scrape_problem_description(fn_input.slug, fn_input.response)
    /\ fn_pc' = "returned"
    /\ UNCHANGED fn_input
    /\ UNCHANGED <<runVars, transportVars, mergeVars, statsVars>>

SpecScrape == InitScrapeStudy /\ [][ScrapeProblemDescription]_vars

\* C19: scrape_problem_description always returns a record of the four fields:
\* the all-defaults record (title = slug, empty description, "Unknown", no
\* tags) for a non-200 status or a failed fetch; for a fetched page, each field
\* whose element is not found has its default and each field found has its
\* extracted value, independently of the other fields.
C19_FieldsDefaultIndependently ==
    fn_pc = "returned" =>
        LET slug == fn_input.slug
            response == fn_input.response
            page == response.page
        IN /\ DOMAIN fn_output = {"title", "description", "difficulty", "tags"}
           /\ response.kind # "page" =>
                 fn_output = [title |-> slug, description |-> <<>>,
                              difficulty |-> "Unknown", tags |-> <<>>]
           /\ response.kind = "page" =>
                 /\ fn_output.title = IF page.has_title THEN "Two Sum" ELSE slug
                 /\ fn_output.description =
                       IF ~page.has_description THEN <<>>
                       ELSE IF page.has_container THEN <<"d", " ", "e">>
                       ELSE <<"d", " ", " ", "e">>
                 /\ fn_output.difficulty =
                       IF page.has_difficulty THEN "Medium" ELSE "Unknown"
                 /\ fn_output.tags =
                       IF page.has_tags THEN <<"Array", "Hash Table">> ELSE <<>>

C19_Witness ==
    /\ fn_pc = "returned"
    /\ fn_input.slug = "lru-cache"
    /\ fn_input.response.kind = "page"
    /\ ~fn_input.response.page.has_title
    /\ ~fn_input.response.page.has_difficulty
    /\ fn_output = [title |-> "lru-cache", description |-> <<"d", " ", "e">>,
                    difficulty |-> "Unknown", tags |-> <<"Array", "Hash Table">>]

(***************************************************************************)
(* parse_html_content on every small document.                             *)
(***************************************************************************)
MaxText == 3

Element(tag, text) == [tag |-> tag, text |-> text]

\* Paragraph texts of up to MaxText characters, and the texts of pre blocks.
ParagraphTexts == SeqsUpTo({"a", " ", "\n"}, MaxText)
PreTexts == {<<"x">>, <<"x", " ", " ", "x", "\n">>}

\* A pre block followed by the paragraph "Hello   world".
HelloWorld ==
    <<Element("pre", <<"x", " ", " ", "x">>),
      Element("p", <<"Hello", " ", " ", " ", "world">>)>>

\* Documents: empty content, a paragraph, a pre block before a paragraph, a
\* pre block between two paragraphs.
Documents ==
    {<<>>, HelloWorld}
        \cup {<<Element("p", t)>> : t \in ParagraphTexts}
        \cup {<<Element("pre", x), Element("p", t)>> : x \in PreTexts, t \in ParagraphTexts}
        \cup {<<Element("p", t), Element("pre", x), Element("p", u)>> :
                 t \in ParagraphTexts, x \in PreTexts, u \in ParagraphTexts}

InitNormalizeStudy ==
    /\ InitRun /\ InitTransport /\ InitMerge /\ InitStats
    /\ fn_input \in Documents
    /\ fn_output = <<>>
    /\ fn_pc = "call"

ParseHtmlContent ==
    /\ fn_pc = "call"
    /\ fn_output' = parse_html_content(fn_input)
    /\ fn_pc' = "returned"
    /\ UNCHANGED fn_input
    /\ UNCHANGED <<runVars, transportVars, mergeVars, statsVars>>

SpecNormalize == InitNormalizeStudy /\ [][ParseHtmlContent]_vars

\* The characters of a text that are not whitespace, in order.
Visible(text) == SelectSeq(text, LAMBDA c : c \notin {" ", "\n"})

\* The text of the elements of a document that are not pre blocks.
OutsidePre(doc) == GetText(SelectSeq(doc, LAMBDA e : e.tag # "pre"))

\* C20: the output of parse_html_content holds none of the text that occurs
\* only inside pre blocks, keeps the visible text outside them, has no two
\* consecutive spaces and neither starts nor ends with whitespace; a pre block
\* followed by the paragraph "Hello   world" gives "Hello world".
C20_PreRemovedWhitespaceNormalized ==
    fn_pc = "returned" =>
        /\ \A k \in 1..Len(fn_output) : fn_output[k] # "x"
        /\ Visible(fn_output) = Visible(OutsidePre(fn_input))
        /\ \A k \in 1..(Len(fn_output) - 1) :
              ~(fn_output[k] = " " /\ fn_output[k + 1] = " ")
        /\ fn_output # <<>> =>
              /\ fn_output[1] \notin {" ", "\n"}
              /\ fn_output[Len(fn_output)] \notin {" ", "\n"}
        /\ fn_input = HelloWorld => fn_output = <<"Hello", " ", "world">>

C20_Witness ==
    /\ fn_pc = "returned"
    /\ fn_input = HelloWorld
    /\ fn_output = <<"Hello", " ", "world">>

(***************************************************************************)
(* Properties of the transport (checked under SpecTransport).              *)
(***************************************************************************)
\* Every invocation of the wrapped operation was answered "Rate limited" and
\* the bound is used up: retries only grows on such an answer.
RateLimitedThroughout ==
    hrl_retries = HandleRateLimitMaxRetries /\ hrl_calls = HandleRateLimitMaxRetries

\* C1: when the wrapped operation fails with the rate-limited failure on every
\* invocation, handle_rate_limit ends by propagating that failure, never by
\* returning a value.
C1_ExhaustionPropagatesRateLimited ==
    (tpc = "done" /\ RateLimitedThroughout)
        => (outcome.kind = "raise" /\ Contains(outcome.msg, "Rate limited"))

\* C6, state part: a 403 ends make_request with the authentication failure, which
\* is also how the wrapped call ends; it is the last request of its invocation,
\* and when it answers the first request of the call it is the only request and
\* nothing has slept.
C6_A403EndsTheCall ==
    last_status = Response(403) =>
        /\ tpc \in {"handle_rate_limit", "done"}
        /\ mr_result = Raise(AuthFailedMsg)
        /\ tpc = "done" => outcome = Raise(AuthFailedMsg)
        /\ (hrl_calls = 1 /\ mr_retries = 0) =>
              (total_requests = 1 /\ mr_slept = <<>> /\ hrl_slept = <<>>)

\* C6, step part: once a 403 has been received no further request is issued, no
\* sleep happens and no further invocation of the operation starts.
C6_NothingAfterA403 ==
    last_status = Response(403) =>
        /\ total_requests' = total_requests
        /\ mr_requests' = mr_requests
        /\ mr_slept' = mr_slept
        /\ hrl_slept' = hrl_slept
        /\ hrl_calls' = hrl_calls
        /\ last_status' = last_status

\* C6: a 403 never triggers a retry: exactly one request is observed, no backoff
\* sleep happens, and the call fails with the authentication failure.
C6_A403IsNeverRetried == [](C6_A403EndsTheCall) /\ [][C6_NothingAfterA403]_vars

C6_Witness ==
    /\ tpc = "done"
    /\ last_status = Response(403)
    /\ total_requests = 1
    /\ outcome = Raise(AuthFailedMsg)

(***************************************************************************)
(* Properties of the merge loop (checked under SpecMerge).                 *)
(***************************************************************************)
Languages == {"python3", "cpp"}

\* The list fetch_submissions_for_question returns.
Returned == MergedList(merged)

\* Positions of the dump's Accepted submissions of a language.
AcceptedAt(lang) ==
    {k \in 1..Len(dump) : dump[k].status_display = "Accepted" /\ dump[k].lang = lang}

\* Those among them with the greatest timestamp.
NewestAt(lang) ==
    {k \in AcceptedAt(lang) :
        \A j \in AcceptedAt(lang) : dump[j].timestamp.n <= dump[k].timestamp.n}

RecordsOf(lang) == {r \in 1..Len(Returned) : Returned[r].language = lang}

\* C3: the returned list holds only Accepted submissions, exactly one record for
\* each language with an Accepted submission (none for the others), and that
\* record is a submission of the dump with the greatest timestamp among the
\* Accepted ones of its language, whatever the order of the dump.
C3_LatestAcceptedPerLanguage ==
    mpc = "returned" =>
        /\ \A r \in 1..Len(Returned) :
              /\ Returned[r].status = "Accepted"
              /\ Returned[r].language \in Languages
        /\ \A lang \in Languages :
              /\ Cardinality(RecordsOf(lang)) = IF AcceptedAt(lang) = {} THEN 0 ELSE 1
              /\ \A r \in RecordsOf(lang) :
                    \E k \in NewestAt(lang) :
                        /\ Returned[r].submission_id = dump[k].id
                        /\ Returned[r].timestamp.n = dump[k].timestamp.n

\* An older Accepted submission precedes a newer one of the same language and a
\* rejected one, newer still, follows: the newer Accepted one was kept.
C3_Witness ==
    /\ mpc = "returned"
    /\ Len(dump) = 3
    /\ \E lang \in Languages :
          /\ AcceptedAt(lang) = {1, 2}
          /\ dump[1].timestamp.n < dump[2].timestamp.n
          /\ dump[3].status_display = "Wrong Answer" /\ dump[3].lang = lang
          /\ \E r \in RecordsOf(lang) : Returned[r].submission_id = dump[2].id

\* Languages whose greatest timestamp is shared by several Accepted submissions.
Tied == {lang \in Languages : Cardinality(NewestAt(lang)) > 1}

Least(S) == CHOOSE k \in S : \A j \in S : k <= j
Greatest(S) == CHOOSE k \in S : \A j \in S : j <= k

\* C4 as stated: of several Accepted submissions of a language with the same,
\* greatest timestamp, the one encountered last in the dump is retained.
C4_LastOfTiedIsRetained ==
    mpc = "returned" =>
        \A lang \in Tied : \A r \in RecordsOf(lang) :
            Returned[r].submission_id = dump[Greatest(NewestAt(lang))].id

\* C4 as amended: of several Accepted submissions of a language with the same,
\* greatest timestamp, the one encountered first in the dump is retained (a
\* later one replaces the kept one only when strictly newer).
C4_FirstOfTiedIsRetained ==
    mpc = "returned" =>
        \A lang \in Tied :
            /\ RecordsOf(lang) # {}
            /\ \A r \in RecordsOf(lang) :
                  Returned[r].submission_id = dump[Least(NewestAt(lang))].id

C4_Witness ==
    /\ mpc = "returned"
    /\ \E lang \in Tied :
          /\ Cardinality(AcceptedAt(lang)) = 3
          /\ Cardinality(NewestAt(lang)) = 2
          /\ \E r \in RecordsOf(lang) :
                Returned[r].submission_id = dump[Least(NewestAt(lang))].id

\* Dump positions the record r of the merge's dict can come from.
SourcesOf(r) ==
    {k \in 1..Len(scraped_code) :
        /\ dump[k].status_display = "Accepted"
        /\ dump[k].lang = merged.acc[r].language
        /\ dump[k].id = merged.acc[r].submission_id
        /\ dump[k].timestamp.n = merged.acc[r].timestamp.n
        /\ dump[k].code = None}

\* C18: every kept submission is present in the returned list with a non-empty
\* code field; when its dump entry has no embedded source and the scrape
\* yields no code (or cannot be tried, the entry having no id), its code is
\* the "code unavailable" placeholder.
C18_PlaceholderWhenCodeUnavailable ==
    \A r \in 1..Len(merged.acc) :
        /\ merged.acc[r].code \notin {"", None}
        /\ (SourcesOf(r) # {}
               /\ \A k \in SourcesOf(r) : dump[k].id = None \/ scraped_code[k] = None)
              => merged.acc[r].code = CodePlaceholder

\* Positions of the ids scrape_submission_code was called with whose dump
\* entry has the language lang.
ScrapesFor(lang) ==
    {j \in 1..Len(merged.scraped) :
        \E k \in 1..Len(dump) : dump[k].id = merged.scraped[j] /\ dump[k].lang = lang}

\* C24: scrape_submission_code is called only for submissions that are in the
\* returned list: at most once per language, for an Accepted submission, and
\* never for one that a newer submission of its language supersedes.
C24_ScrapesOnlyReturned ==
    mpc = "returned" =>
        /\ \A j \in 1..Len(merged.scraped) :
              /\ \E r \in 1..Len(Returned) :
                    Returned[r].submission_id = merged.scraped[j]
              /\ \A k \in 1..Len(dump) :
                    dump[k].id = merged.scraped[j] => dump[k].status_display = "Accepted"
        /\ \A lang \in Languages : Cardinality(ScrapesFor(lang)) <= 1

\* Positions of the dump whose timestamp int() accepts.
WellFormedAt == {k \in 1..Len(dump) : dump[k].timestamp.form \in {"int", "digits"}}

\* The k-th smallest element of a set of positions.
RECURSIVE Nth(_, _)
Nth(S, k) == IF k = 1 THEN Least(S) ELSE Nth(S \ {Least(S)}, k - 1)

\* The dump without its malformed records, and what the scraper answered at
\* the positions that are left.
WithoutMalformed(entries) == [k \in 1..Cardinality(WellFormedAt) |-> entries[Nth(WellFormedAt, k)]]

\* C25: a malformed record of the dump (an Accepted submission whose timestamp
\* is missing, null or not an integer) is skipped on its own: the returned
\* list is the one returned for the dump without that record.
C25_MalformedRecordSkippedAlone ==
    mpc = "returned" =>
        Returned = MergedList(MergeSubmissions(WithoutMalformed(dump),
                                               WithoutMalformed(scraped_code)))

(***************************************************************************)
(* Properties of the statistics block (checked under SpecStats).           *)
(***************************************************************************)
\* C5: for every profile-stats response the emitted profile_stats satisfies
\* total_solved = easy + medium + hard.
C5_TotalIsSumOfTiers ==
    spc = "computed" =>
        stats_out.total_solved = stats_out.easy + stats_out.medium + stats_out.hard

Processed ==
    /\ pc \in {"fetch_submissions", "output", "exit"}
    /\ problems_output # <<>>
    /\ Len(problems_output) = i

LastDetail == problems_output[Len(problems_output)]
LastQuestion == solved_questions[Len(problems_output)]

\* How the structured query failed for the question, if it did.
QueryRaised == details_result.kind = "raise"
QueryRanOut == details_result.kind = "return" /\ details_result.value = None
QueryEnvelopeFailed ==
    details_result.kind = "return"
        /\ details_result.value \in {"errors", "no_data", "no_question"}
QueryFailed == QueryRaised \/ QueryRanOut \/ QueryEnvelopeFailed

ScraperCalled == scrape_response.kind # "none"
ScraperSucceeded == scrape_response.kind = "page"

SlugDerived(detail) == detail.title \in {detail.slug, SlugTitle(detail.slug)}

DetailsUnavailable == QueryFailed /\ ~ScraperSucceeded

\* C9: title and difficulty come from the structured query when available,
\* otherwise from the enumeration record; in particular, when detail fetching
\* fails for a question enumerated as Easy, Medium or Hard, the emitted
\* difficulty and title are the enumeration-time values.
C9_EnumerationValuesPreferred ==
    (Processed /\ DetailsUnavailable) =>
        /\ LastDetail.difficulty = LastQuestion.difficulty
        /\ LastDetail.title = LastQuestion.title

\* C10, state part: a failed submissions fetch leaves submissions = [] for that
\* question and never aborts the run; a successful one with an Accepted
\* submission (and a timestamp on every entry) leaves a non-empty list; a run
\* that got past enumeration exits 0 with one ProblemDetail per question.
C10_FailureIsPerQuestion ==
    /\ Processed =>
          /\ subs_response \in SubmissionFailures => LastDetail.submissions = <<>>
          /\ ((\E k \in 1..Len(subs_dump) :
                  subs_dump[k].status_display = "Accepted" /\ subs_dump[k].lang # None)
               /\ \A k \in 1..Len(subs_dump) : subs_dump[k].timestamp.form = "int")
                => LastDetail.submissions # <<>>
    /\ subs_response \in SubmissionFailures =>
          (exit_status # "exit1" /\ pc \in {"fetch_problem_details", "fetch_submissions",
                                            "output", "exit"})
    /\ (pc = "exit" /\ enumeration = "status_200") =>
          /\ exit_status = "exit0"
          /\ Len(stdout) = 1
          /\ Len(stdout[1].problems) = Len(solved_questions)

\* C10, step part: the ProblemDetails already appended are left as they are.
C10_EarlierDetailsKept ==
    /\ Len(problems_output') >= Len(problems_output)
    /\ \A k \in 1..Len(problems_output) : problems_output'[k] = problems_output[k]

\* C10: a failed submissions fetch for one slug gives that slug submissions = []
\* and leaves the other slugs' submissions unaffected; the loop continues and
\* the run exits 0.
C10_SubmissionFailureIsIsolated ==
    [](C10_FailureIsPerQuestion) /\ [][C10_EarlierDetailsKept]_vars

C10_Witness ==
    /\ pc = "exit"
    /\ exit_status = "exit0"
    /\ Len(stdout[1].problems) = 2
    /\ stdout[1].problems[1].submissions # <<>>
    /\ stdout[1].problems[2].submissions = <<>>
    /\ subs_response = "status_429"

\* The slugs of a list of records, in order.
SlugsOf(records) == [k \in 1..Len(records) |-> records[k].slug]

\* C11: whatever fails in fetch_submissions_for_question and
\* fetch_problem_details, no failure leaves the per-question loop: the loop
\* can always go on, the run never aborts once the enumeration succeeded, and
\* the exported problems hold exactly one ProblemDetail per enumerated
\* question, with the same slugs in enumeration order.
C11_OneDetailPerQuestion ==
    /\ Len(problems_output) = i
    /\ i <= Len(solved_questions)
    /\ SlugsOf(problems_output) = SubSeq(SlugsOf(solved_questions), 1, i)
    /\ enumeration = "status_200" => exit_status # "exit1"
    /\ pc \in {"fetch_submissions", "fetch_problem_details", "output"} => ENABLED Next
    /\ (pc = "exit" /\ enumeration = "status_200") =>
          /\ Len(stdout) = 1
          /\ SlugsOf(stdout[1].problems) = SlugsOf(solved_questions)

C11_Witness ==
    /\ pc = "exit"
    /\ exit_status = "exit0"
    /\ SlugsOf(stdout[1].problems) = <<"lru-cache", "two-sum">>
    /\ subs_response = "status_200"
    /\ \E k \in 1..Len(subs_dump) : subs_dump[k].timestamp.form = "missing"
    /\ stdout[1].problems[1].submissions = <<>>
    /\ stdout[1].problems[2].submissions = <<>>
    /\ details_result = Raise(RetriesExhaustedMsg)

\* The identity query was made and did not report the account as signed in.
AuthRefused == auth_result \notin {NoResult, Return("signed_in")}

\* C16: when the identity query of test_connection reports the account as not
\* signed in, or fails, the run exits 1 without an export, and no later step
\* has made a request: none for the profile statistics, the enumeration, the
\* submissions or the details; every later step runs only after a signed-in
\* answer.
C16_FailedAuthenticationAborts ==
    /\ AuthRefused =>
          /\ pc = "exit"
          /\ exit_status = "exit1"
          /\ stdout = <<>>
          /\ stderr_error # <<>>
          /\ stats_result = NoResult
          /\ enumeration = "none"
          /\ subs_response = "none"
          /\ details_result = NoResult
          /\ scrape_calls = <<>>
          /\ problems_output = <<>>
    /\ (stats_result # NoResult \/ enumeration # "none" \/ subs_response # "none"
            \/ details_result # NoResult \/ stdout # <<>>)
          => auth_result = Return("signed_in")

C16_Witness ==
    /\ auth_result = Return("not_signed_in")
    /\ pc = "exit"
    /\ exit_status = "exit1"
    /\ Contains(stderr_error, " during connection test: ")

\* The profile query answered without a user record or with an error envelope.
NoUserRecord ==
    stats_result.kind = "return"
        /\ stats_result.value \in {"no_matched_user", "no_data", "errors"}

\* C17: the run exits 0 exactly when it has printed the export document; it
\* prints it at most once and only after the loop has processed every
\* enumerated question; when fetch_profile_stats finds no user record or an
\* error envelope the run exits 1 without printing a document.
C17_ExitZeroIffExported ==
    /\ Len(stdout) <= 1
    /\ exit_status = "exit0" <=> stdout # <<>>
    /\ pc = "exit" <=> exit_status \in {"exit0", "exit1"}
    /\ stdout # <<>> =>
          /\ enumeration = "status_200"
          /\ i = Len(solved_questions)
          /\ Len(problems_output) = Len(solved_questions)
          /\ stdout[1].problems = problems_output
    /\ NoUserRecord =>
          /\ pc = "exit"
          /\ exit_status = "exit1"
          /\ stdout = <<>>
          /\ Contains(stderr_error, "Failed to fetch profile stats: ")

C17_Witness ==
    /\ auth_result = Return("signed_in")
    /\ stats_result = Return("no_matched_user")
    /\ pc = "exit"
    /\ exit_status = "exit1"
    /\ stdout = <<>>

\* C21: parse_html_content of an empty or absent content is the empty string,
\* so a question the structured query returns with empty or null content gets
\* an empty description with the query's own title, difficulty and tags: no
\* failure record and no scrape.
C21_EmptyContentGivesEmptyDescription ==
    /\ parse_html_content(<<>>) = <<>>
    /\ (Processed /\ details_result = Return("question_no_content")) =>
          /\ LastDetail.description = <<>>
          /\ LastDetail.title \in {"Two Sum", "LRU Cache"}
          /\ LastDetail.difficulty \in {"Easy", "Medium"}
          /\ LastDetail.tags = <<"Array">>
          /\ ~ScraperCalled
          /\ exit_status # "exit1"

C21_Witness ==
    /\ Processed
    /\ details_result = Return("question_no_content")
    /\ LastDetail.slug = "lru-cache"
    /\ LastDetail.title = "LRU Cache"
    /\ LastDetail.description = <<>>

(***************************************************************************)
(* More properties of the transport (checked under SpecTransport).         *)
(***************************************************************************)
\* The latest invocation of the wrapped operation has ended, and how.
Succeeded == tpc \in {"handle_rate_limit", "done"} /\ mr_result.kind = "return"
FailedRateLimited ==
    tpc = "handle_rate_limit" /\ mr_result.kind = "raise"
        /\ Contains(mr_result.msg, "Rate limited")
FailedOtherwise ==
    mr_result.kind = "raise" /\ ~Contains(mr_result.msg, "Rate limited")

\* C22, state part: the wrapped operation is invoked at most 5 times and at
\* most 15 requests are issued in one call, 3 at most per invocation.
C22_RequestsAreBounded ==
    /\ hrl_calls <= 5
    /\ mr_requests <= 3
    /\ total_requests <= 15
    /\ total_requests <= 3 * (hrl_calls - 1) + mr_requests

\* C22: whatever the service answers, a call of handle_rate_limit ends, by a
\* return or a raise, after at most 5 invocations and 15 requests.
C22_CallTerminatesWithinBounds ==
    [](C22_RequestsAreBounded) /\ <>(tpc = "done")

C22_Witness ==
    /\ tpc = "done"
    /\ hrl_calls = 5
    /\ total_requests = 15

\* C23: every backoff sleep of handle_rate_limit is followed by another
\* invocation of the wrapped operation: the sleeps number the invocations
\* minus one, and none follows the last permitted invocation.
C23_NoSleepInVain ==
    /\ Len(hrl_slept) = hrl_calls - 1
    /\ tpc = "done" => Len(hrl_slept) < HandleRateLimitMaxRetries

\* C12, state part: when an invocation succeeds, every earlier invocation was
\* rate limited (invocations = rate-limited failures + 1, one sleep per
\* failure), the invocations do not exceed the bound, and the call returns
\* that success value.
C12_SuccessAfterRateLimits ==
    /\ hrl_calls <= HandleRateLimitMaxRetries
    /\ Succeeded =>
          /\ hrl_calls = hrl_retries + 1
          /\ hrl_retries < HandleRateLimitMaxRetries
          /\ Len(hrl_slept) = hrl_retries
          /\ tpc = "done" => outcome = mr_result

\* C12, step part: a rate-limited failure that is the k-th, k below the bound,
\* is followed by one more invocation after a sleep of 2^k seconds; a success
\* is returned without any further invocation.
C12_RateLimitedIsRetried ==
    /\ (FailedRateLimited /\ hrl_retries + 1 < HandleRateLimitMaxRetries) =>
          /\ tpc' = "make_request"
          /\ hrl_calls' = hrl_calls + 1
          /\ hrl_slept' = Append(hrl_slept, 2 ^ (hrl_retries + 1))
    /\ (Succeeded /\ tpc = "handle_rate_limit") =>
          /\ tpc' = "done"
          /\ outcome' = mr_result
          /\ hrl_calls' = hrl_calls

\* C12: k rate-limited failures, k below the bound, followed by a success make
\* handle_rate_limit return that success after exactly k + 1 invocations.
C12_ReturnsAfterKPlusOne ==
    [](C12_SuccessAfterRateLimits) /\ [][C12_RateLimitedIsRetried]_vars

C12_Witness ==
    /\ tpc = "done"
    /\ hrl_retries = 3
    /\ hrl_calls = 4
    /\ hrl_slept = <<2, 4, 8>>
    /\ outcome = Return("signed_in")

\* C13, state part: a failure other than the rate-limited one is what the call
\* ends with, unchanged.
C13_OtherFailureIsTheOutcome ==
    /\ FailedOtherwise =>
          mr_result.msg \in {AuthFailedMsg, RequestFailedMsg(500), RetriesExhaustedMsg}
    /\ (tpc = "done" /\ FailedOtherwise) => outcome = mr_result

\* C13, step part: after such a failure the very next step ends the call with
\* it: no further invocation, request or sleep.
C13_NoRetryOfOtherFailure ==
    (tpc = "handle_rate_limit" /\ FailedOtherwise) =>
        /\ tpc' = "done"
        /\ outcome' = mr_result
        /\ hrl_calls' = hrl_calls
        /\ hrl_retries' = hrl_retries
        /\ hrl_slept' = hrl_slept
        /\ total_requests' = total_requests

\* C13: a failure of any kind other than rate limiting propagates from
\* handle_rate_limit at once and unmodified, however many rate-limit retries
\* preceded it.
C13_OtherFailurePropagates ==
    [](C13_OtherFailureIsTheOutcome) /\ [][C13_NoRetryOfOtherFailure]_vars

C13_Witness ==
    /\ tpc = "done"
    /\ hrl_retries = 2
    /\ hrl_calls = 3
    /\ hrl_slept = <<2, 4>>
    /\ outcome = Raise(RequestFailedMsg(500))

\* C14: one execution of make_request issues at most 3 requests, each request
\* after the first following a network-level exception; it sleeps 2 and 4
\* seconds between them, never after the third; three network-level
\* exceptions end it with the retries-exhausted failure after exactly 3
\* requests and 2 sleeps.
C14_AtMostThreeRequests ==
    /\ mr_requests <= 3
    /\ mr_retries <= mr_requests
    /\ mr_requests <= mr_retries + 1
    /\ mr_slept = SubSeq(<<2, 4>>, 1, IF mr_retries = 3 THEN 2 ELSE mr_retries)
    /\ mr_retries = 3 =>
          /\ tpc # "make_request"
          /\ mr_requests = 3
          /\ mr_result = Raise(<<"Request failed", " after ", "3", " retries: ">>
                                   \o NetworkErrorText)
    /\ (mr_result.kind = "raise" /\ Contains(mr_result.msg, " after ")) =>
          (mr_retries = 3 /\ last_status = NetworkException)

C14_Witness ==
    /\ tpc = "done"
    /\ hrl_calls = 1
    /\ total_requests = 3
    /\ mr_slept = <<2, 4>>
    /\ outcome = Raise(RetriesExhaustedMsg)

\* C15, state part: once a request of the current execution of make_request
\* got an HTTP response the execution is over: a 200 returned the body, a 429
\* raised the rate-limited failure, another status other than 403 raised the
\* request failure carrying the status code; the requests before it all ended
\* in network-level exceptions.
C15_ResponseEndsMakeRequest ==
    (mr_requests > 0 /\ last_status.kind = "response") =>
        /\ tpc # "make_request"
        /\ mr_requests = mr_retries + 1
        /\ last_status.status = 200 => mr_result.kind = "return"
        /\ last_status.status = 429 => mr_result = Raise(<<"Rate limited">>)
        /\ last_status.status = 500 =>
              mr_result = Raise(<<"Request failed", " with status code: ", "500">>)

\* C15, step part: make_request issues a request only as the first of an
\* execution or right after a network-level exception.
C15_RequestsFollowExceptions ==
    mr_requests' > mr_requests => (mr_requests = 0 \/ last_status = NetworkException)

\* C15: make_request never retries locally after an HTTP response.
C15_NoLocalRetryAfterResponse ==
    [](C15_ResponseEndsMakeRequest) /\ [][C15_RequestsFollowExceptions]_vars

C15_Witness ==
    /\ tpc = "handle_rate_limit"
    /\ last_status = Response(500)
    /\ mr_requests = 3
    /\ mr_retries = 2
    /\ mr_slept = <<2, 4>>
    /\ mr_result = Raise(RequestFailedMsg(500))
====
